---- MODULE Spec2Model ----
(***************************************************************************)
(* A model of the pipeline package (src/pipeline.go): a Pipeline is a list *)
(* of stages; Run wires an input channel through every stage and starts a  *)
(* drain goroutine that closes doneChan.  Every goroutine the package      *)
(* starts is a task of the model, every channel a record with its buffer   *)
(* and the number of times close() was called on it.                       *)
(***************************************************************************)
EXTENDS Integers, Sequences, FiniteSets, TLC

\* ----------------------------------------------------------------- bounds
MaxStages == 2      \* stages appended to the pipeline
MaxFan    == 2      \* largest fanSize handed to AddStageWithFanOut
MaxLen    == 2      \* items the caller puts on an input channel
MaxLenSeq == 3      \* the same, for the input of a run with no fanned-out stage
MaxInt    == 2      \* the int items are 1..MaxInt
MaxRuns   == 2      \* invocations of Run
MaxMerge  == 2      \* input channels handed to a standalone MergeChannels
InCap     == 2      \* capacity of the caller's input channels
MaxStagesRuns == 1  \* stages of a pipeline that is run more than once
MaxLenRuns == 1     \* items put on an input channel of such a pipeline
MaxStuck  == 1      \* calls of a transformation that never return

VARIABLES
    p,          \* the Pipeline value: the list of stages appended so far
    runs,       \* one record per Run invocation: its input, final and done channel
    tasks,      \* the goroutines started so far, by id
    chans,      \* the channels made so far, by id
    wg,         \* the sync.WaitGroup counter of each MergeChannels call, by its outChan
    sent,       \* per input channel: the items the caller has put on it, in order
    carried     \* per channel: the deliveries made over it, in order

vars == <<p, runs, tasks, chans, wg, sent, carried>>

\* ------------------------------------------------------------------ items
\* interface{} values: an int n is <<"int", n>>, any other value <<"str", 0>>,
\* and nil is Nil.
Nil == <<"nil", 0>>
IsInt(x) == x[1] = "int"
Items == {<<"int", n>> : n \in 1..MaxInt} \cup {<<"str", 0>>}

\* The ProcessFn values of the repository's examples.
add1(inObj) == IF IsInt(inObj) THEN <<"int", inObj[2] + 1>> ELSE Nil
squareStage(inObj) == IF IsInt(inObj) THEN <<"int", inObj[2] * inObj[2]>> ELSE Nil
Fns == {"add1", "squareStage"}
Call(fn, inObj) == IF fn = "add1" THEN add1(inObj) ELSE squareStage(inObj)

\* ------------------------------------------------------------ identifiers
NoChan == <<"none", 0, 0, 0>>
Buffered == <<"buffer", 0, 0, 0>>       \* an item offered by a channel's buffer
InputChan(c) == <<"in", c, 0, 0>>
WorkerOutMadeOnce(r, s, i) == <<"w", 1, s, i>>
WorkerOut(r, s, i) == <<"w", r, s, i>>
MergeOut(r, s) == <<"m", r, s, 0>>
DoneChan(r) == <<"done", r, 0, 0>>
Worker(r, s, i) == <<"worker", r, s, i>>
Relay(r, s, i) == <<"relay", r, s, i>>
Coord(r, s) == <<"coord", r, s, 0>>
Drain(r) == <<"drain", r, 0, 0>>

RunInputs == {InputChan(c) : c \in 1..MaxRuns}
MergeInputs == {InputChan(c) : c \in 1..MaxMerge}
InputChans == RunInputs \cup MergeInputs

\* make(chan interface{}) and make(chan interface{}, n)
MakeChan(cap) == [cap |-> cap, buf |-> <<>>, closed |-> 0]

IsTask(t, kind) == t \in DOMAIN tasks /\ tasks[t].kind = kind
TasksOf(kind) == {t \in DOMAIN tasks : tasks[t].kind = kind}

\* ------------------------------------------------------------ construction
\* New()
Init ==
    /\ p = <<>>
    /\ runs = <<>>
    /\ tasks = <<>>
    /\ chans = [c \in InputChans |-> MakeChan(InCap)]
    /\ wg = <<>>
    /\ sent = [c \in InputChans |-> <<>>]
    /\ carried = [c \in InputChans |-> <<>>]

\* fanningStageFnFactory(inFunc, fanSize): the stage function, kept as the
\* values it closes over.
fanningStageFnFactory(inFunc, fanSize) == [fn |-> inFunc, fan |-> fanSize]

AddStage(inFunc) ==
    /\ Len(p) < MaxStages
    /\ Len(runs) < MaxRuns
    /\ p' = Append(p, fanningStageFnFactory(inFunc, 1))
    /\ UNCHANGED <<runs, tasks, chans, wg, sent, carried>>

AddStageWithFanOut(inFunc, fanSize) ==
    /\ Len(p) < MaxStages
    /\ Len(runs) < MaxRuns
    /\ p' = Append(p, fanningStageFnFactory(inFunc, fanSize))
    /\ UNCHANGED <<runs, tasks, chans, wg, sent, carried>>

\* stageFnFactory(inFunc)(inChan): the goroutine it starts, at the top of its
\* range loop.
stageFnFactory(inFunc, inChan, outChan) ==
    [kind |-> "worker", fn |-> inFunc, in |-> inChan, out |-> outChan,
     pc |-> "recv", val |-> Nil, called |-> <<>>]

\* MergeChannels(inChans): one relay goroutine per input channel and the
\* goroutine that waits for them and closes outChan.
MergeRelay(ch, outChan) ==
    [kind |-> "relay", fn |-> "", in |-> ch, out |-> outChan,
     pc |-> "recv", val |-> Nil, called |-> <<>>]

MergeCoord(outChan) ==
    [kind |-> "coord", fn |-> "", in |-> NoChan, out |-> outChan,
     pc |-> "wait", val |-> Nil, called |-> <<>>]

WgAddOneMore(inChans) == Len(inChans) + 1

\* wg.Add(len(inChans))
WgAdd(inChans) == Len(inChans)

MergeChannelsSharedLoopVar(inChans, r, s) ==
    [t \in {Relay(r, s, i) : i \in 1..Len(inChans)} \cup {Coord(r, s)} |->
        IF t = Coord(r, s) THEN MergeCoord(MergeOut(r, s))
        ELSE MergeRelay(inChans[Len(inChans)], MergeOut(r, s))]

MergeChannels(inChans, r, s) ==
    [t \in {Relay(r, s, i) : i \in 1..Len(inChans)} \cup {Coord(r, s)} |->
        IF t = Coord(r, s) THEN MergeCoord(MergeOut(r, s))
        ELSE MergeRelay(inChans[t[4]], MergeOut(r, s))]

\* The stage function of stage s applied to inChan in run r: fanSize workers
\* on the same inChan, their outputs merged.
StageChannels(stage, r, s) == [i \in 1..stage.fan |-> WorkerOut(r, s, i)]

StageTasksOneMore(stage, inChan, r, s) ==
    [t \in {Worker(r, s, i) : i \in 1..(stage.fan + 1)} |->
        stageFnFactory(stage.fn, inChan, WorkerOut(r, s, t[4]))]
    @@ MergeChannels([i \in 1..(stage.fan + 1) |-> WorkerOut(r, s, i)], r, s)

StageTasks(stage, inChan, r, s) ==
    [t \in {Worker(r, s, i) : i \in 1..stage.fan} |->
        stageFnFactory(stage.fn, inChan, WorkerOut(r, s, t[4]))]
    @@ MergeChannels(StageChannels(stage, r, s), r, s)

StageInNotChained(inChan, r, s) == inChan

\* The inChan variable of Run before stage s is applied.
StageIn(inChan, r, s) == IF s = 1 THEN inChan ELSE MergeOut(r, s - 1)

\* The drain goroutine of Run.
DrainTask(inChan, doneChan) ==
    [kind |-> "drain", fn |-> "", in |-> inChan, out |-> doneChan,
     pc |-> "recv", val |-> Nil, called |-> <<>>]

RunTasks(inChan, r) ==
    LET ids == UNION {DOMAIN StageTasks(p[s], StageIn(inChan, r, s), r, s) : s \in 1..Len(p)}
    IN  [t \in ids |-> StageTasks(p[t[3]], StageIn(inChan, r, t[3]), r, t[3])[t]]
        @@ (Drain(r) :> DrainTask(StageIn(inChan, r, Len(p) + 1), DoneChan(r)))

\* The channels made by the stage functions and by Run itself.
RunChans(r) == {RunTasks(NoChan, r)[t].out : t \in DOMAIN RunTasks(NoChan, r)}

Run(inChan) ==
    LET r == Len(runs) + 1 IN
    /\ Len(runs) < MaxRuns
    /\ runs' = Append(runs, [in |-> inChan, out |-> StageIn(inChan, r, Len(p) + 1),
                             done |-> DoneChan(r), p |-> p])
    /\ tasks' = tasks @@ RunTasks(inChan, r)
    /\ chans' = chans @@ [c \in RunChans(r) |-> MakeChan(0)]
    /\ wg' = wg @@ [c \in {MergeOut(r, s) : s \in 1..Len(p)} |->
                        WgAdd(StageChannels(p[c[3]], r, c[3]))]
    /\ carried' = carried @@ [c \in RunChans(r) |-> <<>>]
    /\ UNCHANGED <<p, sent>>

\* A standalone MergeChannels call on the first k input channels, and the
\* caller's loop over the merged channel (for e := range outChan).
Reader == <<"reader", 0, 0, 0>>

ReaderTask(inChan) ==
    [kind |-> "reader", fn |-> "", in |-> inChan, out |-> NoChan,
     pc |-> "recv", val |-> Nil, called |-> <<>>]

MergeArgs(k) == [i \in 1..k |-> InputChan(i)]

MergeCall(k) ==
    /\ tasks = <<>>
    /\ tasks' = MergeChannels(MergeArgs(k), 0, 1) @@ (Reader :> ReaderTask(MergeOut(0, 1)))
    /\ chans' = chans @@ (MergeOut(0, 1) :> MakeChan(0))
    /\ wg' = wg @@ (MergeOut(0, 1) :> WgAdd(MergeArgs(k)))
    /\ carried' = carried @@ (MergeOut(0, 1) :> <<>>)
    /\ UNCHANGED <<p, runs, sent>>

\* ---------------------------------------------------------------- caller
\* Some goroutine ranges over c (the caller hands a channel over before it
\* fills it; a goroutine not yet scheduled makes every filled state reachable).
Wired(c) == \E t \in DOMAIN tasks : tasks[t].in = c

\* The owner of an input channel puts an item on it (inChan <- x) ...
\* How many items the model lets the caller put on c.
InputBound(c) ==
    IF \E r \in 1..Len(runs) :
          runs[r].in = c /\ \A s \in 1..Len(runs[r].p) : runs[r].p[s].fan = 1
    THEN MaxLenSeq ELSE MaxLen

Produce(c, x) ==
    /\ Wired(c)
    /\ chans[c].closed = 0
    /\ Len(chans[c].buf) < chans[c].cap
    /\ Len(sent[c]) < InputBound(c)
    /\ chans' = [chans EXCEPT ![c].buf = Append(@, x)]
    /\ sent' = [sent EXCEPT ![c] = Append(@, x)]
    /\ UNCHANGED <<p, runs, tasks, wg, carried>>

\* ... and closes it.
CloseInput(c) ==
    /\ Wired(c)
    /\ chans[c].closed = 0
    /\ chans' = [chans EXCEPT ![c].closed = 1]
    /\ UNCHANGED <<p, runs, tasks, wg, sent, carried>>

\* --------------------------------------------------------------- channels
\* What a receive on c can take: the head of the buffer, or the item of a
\* goroutine blocked in a send on the unbuffered c.
Offers(c) ==
    (IF chans[c].buf # <<>> THEN {Buffered} ELSE {})
    \cup {t \in DOMAIN tasks : tasks[t].pc = "send" /\ tasks[t].out = c /\ chans[c].cap = 0}

OfferVal(c, o) == IF o = Buffered THEN Head(chans[c].buf) ELSE tasks[o].val

\* A range loop over c ends: c is closed and nothing is left in it.
Exhausted(c) == chans[c].closed > 0 /\ chans[c].buf = <<>>

\* close(c)
Close(c) == [chans EXCEPT ![c].closed = @ + 1]

\* A goroutine whose send (outChan <- obj) completed is back at the top of
\* its range loop.
SendReturns(tk) == [tk EXCEPT !.pc = "recv", !.val = Nil]

ReceivePeeks(t, o, after) ==
    LET c == tasks[t].in IN
    /\ chans' = chans
    /\ tasks' = IF o = Buffered THEN [tasks EXCEPT ![t] = after]
                ELSE [tasks EXCEPT ![t] = after, ![o] = SendReturns(tasks[o])]
    /\ carried' = [carried EXCEPT ![c] =
                      Append(@, [from |-> o, to |-> t, item |-> OfferVal(c, o)])]

\* Task t takes offer o from its input channel and becomes `after`.
Receive(t, o, after) ==
    LET c == tasks[t].in IN
    /\ chans' = IF o = Buffered THEN [chans EXCEPT ![c].buf = Tail(@)] ELSE chans
    /\ tasks' = IF o = Buffered THEN [tasks EXCEPT ![t] = after]
                ELSE [tasks EXCEPT ![t] = after, ![o] = SendReturns(tasks[o])]
    /\ carried' = [carried EXCEPT ![c] =
                      Append(@, [from |-> o, to |-> t, item |-> OfferVal(c, o)])]

\* ---------------------------------------------------------------- worker
\* for inObj := range inChan
WorkerRecv(t) ==
    /\ IsTask(t, "worker") /\ tasks[t].pc = "recv"
    /\ \E o \in Offers(tasks[t].in) :
          Receive(t, o, [tasks[t] EXCEPT !.pc = "call", !.val = OfferVal(tasks[t].in, o)])
    /\ UNCHANGED <<p, runs, wg, sent>>

ForwardsAlways(outObj) == TRUE

\* outObj != nil
Forwards(outObj) == outObj # Nil

WorkerCallSendsInput(t) ==
    /\ IsTask(t, "worker") /\ tasks[t].pc = "call"
    /\ LET outObj == Call(tasks[t].fn, tasks[t].val) IN
       tasks' = [tasks EXCEPT ![t] =
                   [@ EXCEPT !.pc = IF Forwards(outObj) THEN "send" ELSE "recv",
                             !.val = IF Forwards(outObj) THEN tasks[t].val ELSE Nil,
                             !.called = Append(@, tasks[t].val)]]
    /\ UNCHANGED <<p, runs, chans, wg, sent, carried>>

\* if outObj := inFunc(inObj); outObj != nil { the send is next }
WorkerCall(t) ==
    /\ IsTask(t, "worker") /\ tasks[t].pc = "call"
    /\ LET outObj == Call(tasks[t].fn, tasks[t].val) IN
       tasks' = [tasks EXCEPT ![t] =
                   [@ EXCEPT !.pc = IF Forwards(outObj) THEN "send" ELSE "recv",
                             !.val = IF Forwards(outObj) THEN outObj ELSE Nil,
                             !.called = Append(@, tasks[t].val)]]
    /\ UNCHANGED <<p, runs, chans, wg, sent, carried>>

\* inFunc(inObj) never returns: the worker stays in the call, holding inObj.
Stuck(t) == tasks[t].pc = "stuck"

WorkerHang(t) ==
    /\ IsTask(t, "worker") /\ tasks[t].pc = "call"
    /\ Cardinality({u \in DOMAIN tasks : Stuck(u)}) < MaxStuck
    /\ tasks' = [tasks EXCEPT ![t].pc = "stuck"]
    /\ UNCHANGED <<p, runs, chans, wg, sent, carried>>

WorkerExitNoClose(t) ==
    /\ IsTask(t, "worker") /\ tasks[t].pc = "recv"
    /\ Exhausted(tasks[t].in)
    /\ tasks' = [tasks EXCEPT ![t].pc = "done"]
    /\ UNCHANGED <<p, runs, chans, wg, sent, carried>>

\* The range loop ends and the deferred close(outChan) runs.
WorkerExit(t) ==
    /\ IsTask(t, "worker") /\ tasks[t].pc = "recv"
    /\ Exhausted(tasks[t].in)
    /\ tasks' = [tasks EXCEPT ![t].pc = "done"]
    /\ chans' = Close(tasks[t].out)
    /\ UNCHANGED <<p, runs, wg, sent, carried>>

\* ----------------------------------------------------------------- merger
\* for obj := range ch
RelayRecv(t) ==
    /\ IsTask(t, "relay") /\ tasks[t].pc = "recv"
    /\ \E o \in Offers(tasks[t].in) :
          Receive(t, o, [tasks[t] EXCEPT !.pc = "send", !.val = OfferVal(tasks[t].in, o)])
    /\ UNCHANGED <<p, runs, wg, sent>>

RelayExitNoDone(t) ==
    /\ IsTask(t, "relay") /\ tasks[t].pc = "recv"
    /\ Exhausted(tasks[t].in)
    /\ tasks' = [tasks EXCEPT ![t].pc = "done"]
    /\ UNCHANGED <<p, runs, chans, wg, sent, carried>>

RelayExitClosesOut(t) ==
    /\ IsTask(t, "relay") /\ tasks[t].pc = "recv"
    /\ Exhausted(tasks[t].in)
    /\ tasks' = [tasks EXCEPT ![t].pc = "done"]
    /\ wg' = [wg EXCEPT ![tasks[t].out] = @ - 1]
    /\ chans' = Close(tasks[t].out)
    /\ UNCHANGED <<p, runs, sent, carried>>

\* The range loop ends and the deferred wg.Done() runs.
RelayExit(t) ==
    /\ IsTask(t, "relay") /\ tasks[t].pc = "recv"
    /\ Exhausted(tasks[t].in)
    /\ tasks' = [tasks EXCEPT ![t].pc = "done"]
    /\ wg' = [wg EXCEPT ![tasks[t].out] = @ - 1]
    /\ UNCHANGED <<p, runs, chans, sent, carried>>

WaitReturnsEarly(outChan) == wg[outChan] <= 1

\* wg.Wait() returns
WaitReturns(outChan) == wg[outChan] = 0

\* wg.Wait() returns and the deferred close(outChan) runs.
CoordClose(t) ==
    /\ IsTask(t, "coord") /\ tasks[t].pc = "wait"
    /\ WaitReturns(tasks[t].out)
    /\ tasks' = [tasks EXCEPT ![t].pc = "done"]
    /\ chans' = Close(tasks[t].out)
    /\ UNCHANGED <<p, runs, wg, sent, carried>>

\* ------------------------------------------------------------------ drain
DrainRecvCloses(t) ==
    /\ IsTask(t, "drain") /\ tasks[t].pc = "recv"
    /\ \E o \in Offers(tasks[t].in) :
          LET c == tasks[t].in IN
          /\ chans' = [(IF o = Buffered THEN [chans EXCEPT ![c].buf = Tail(@)] ELSE chans)
                          EXCEPT ![tasks[t].out].closed = @ + 1]
          /\ tasks' = IF o = Buffered THEN tasks
                      ELSE [tasks EXCEPT ![o] = [@ EXCEPT !.pc = "recv", !.val = Nil]]
          /\ carried' = [carried EXCEPT ![c] =
                            Append(@, [from |-> o, to |-> t, item |-> OfferVal(c, o)])]
    /\ UNCHANGED <<p, runs, wg, sent>>

\* for range inChan { }
DrainRecv(t) ==
    /\ IsTask(t, "drain") /\ tasks[t].pc = "recv"
    /\ \E o \in Offers(tasks[t].in) : Receive(t, o, tasks[t])
    /\ UNCHANGED <<p, runs, wg, sent>>

\* The range loop ends and the deferred close(doneChan) runs.
DrainExit(t) ==
    /\ IsTask(t, "drain") /\ tasks[t].pc = "recv"
    /\ Exhausted(tasks[t].in)
    /\ tasks' = [tasks EXCEPT ![t].pc = "done"]
    /\ chans' = Close(tasks[t].out)
    /\ UNCHANGED <<p, runs, wg, sent, carried>>

\* for e := range outChan, in the caller of MergeChannels
ReaderRecv(t) ==
    /\ IsTask(t, "reader") /\ tasks[t].pc = "recv"
    /\ \E o \in Offers(tasks[t].in) : Receive(t, o, tasks[t])
    /\ UNCHANGED <<p, runs, wg, sent>>

ReaderExit(t) ==
    /\ IsTask(t, "reader") /\ tasks[t].pc = "recv"
    /\ Exhausted(tasks[t].in)
    /\ tasks' = [tasks EXCEPT ![t].pc = "done"]
    /\ UNCHANGED <<p, runs, chans, wg, sent, carried>>

\* ---------------------------------------------------------- specification
\* One run of a pipeline whose stages all have fan-out >= 1.
Next ==
    \/ \E f \in Fns : runs = <<>> /\ AddStage(f)
    \/ \E f \in Fns, n \in 1..MaxFan : runs = <<>> /\ AddStageWithFanOut(f, n)
    \/ \E c \in RunInputs : runs = <<>> /\ c = InputChan(1) /\ Run(c)
    \/ \E c \in RunInputs, x \in Items : Produce(c, x)
    \/ \E c \in RunInputs : CloseInput(c)
    \/ \E t \in DOMAIN tasks : WorkerRecv(t)
    \/ \E t \in DOMAIN tasks : WorkerCall(t)
    \/ \E t \in DOMAIN tasks : WorkerExit(t)
    \/ \E t \in DOMAIN tasks : RelayRecv(t)
    \/ \E t \in DOMAIN tasks : RelayExit(t)
    \/ \E t \in DOMAIN tasks : CoordClose(t)
    \/ \E t \in DOMAIN tasks : DrainRecv(t)
    \/ \E t \in DOMAIN tasks : DrainExit(t)

Spec == Init /\ [][Next]_vars

\* A standalone use of MergeChannels.
NextMerge ==
    \/ \E k \in 0..MaxMerge : MergeCall(k)
    \/ \E c \in MergeInputs, x \in Items : Produce(c, x)
    \/ \E c \in MergeInputs : CloseInput(c)
    \/ \E t \in DOMAIN tasks : RelayRecv(t)
    \/ \E t \in DOMAIN tasks : RelayExit(t)
    \/ \E t \in DOMAIN tasks : CoordClose(t)
    \/ \E t \in DOMAIN tasks : ReaderRecv(t)
    \/ \E t \in DOMAIN tasks : ReaderExit(t)

SpecMerge == Init /\ [][NextMerge]_vars

\* The steps of the goroutines the package starts; the Go scheduler runs every
\* goroutine that can take a step, and the caller closes what it opened.
Step ==
    \E t \in DOMAIN tasks :
        \/ WorkerRecv(t) \/ WorkerCall(t) \/ WorkerExit(t)
        \/ RelayRecv(t) \/ RelayExit(t) \/ CoordClose(t)
        \/ DrainRecv(t) \/ DrainExit(t)
        \/ ReaderRecv(t) \/ ReaderExit(t)

CallerCloses == \E c \in InputChans : CloseInput(c)

FairSpec == Spec /\ WF_vars(Step) /\ WF_vars(CallerCloses)
FairSpecMerge == SpecMerge /\ WF_vars(Step) /\ WF_vars(CallerCloses)

\* Either use of the package: one run of a pipeline, or one standalone
\* MergeChannels call.
NextEither ==
    \/ MergeOut(0, 1) \notin DOMAIN chans /\ Next
    \/ p = <<>> /\ runs = <<>> /\ NextMerge

SpecEither == Init /\ [][NextEither]_vars

\* The same Pipeline value run up to MaxRuns times on one and the same input
\* channel.
NextShared ==
    \/ \E f \in Fns : Len(p) < MaxStagesRuns /\ AddStage(f)
    \/ \E f \in Fns, n \in 1..MaxFan : Len(p) < MaxStagesRuns /\ AddStageWithFanOut(f, n)
    \/ \E c \in RunInputs : c = InputChan(1) /\ Run(c)
    \/ \E c \in RunInputs, x \in Items : Len(sent[c]) < MaxLen /\ Produce(c, x)
    \/ \E c \in RunInputs : CloseInput(c)
    \/ \E t \in DOMAIN tasks : WorkerRecv(t)
    \/ \E t \in DOMAIN tasks : WorkerCall(t)
    \/ \E t \in DOMAIN tasks : WorkerExit(t)
    \/ \E t \in DOMAIN tasks : RelayRecv(t)
    \/ \E t \in DOMAIN tasks : RelayExit(t)
    \/ \E t \in DOMAIN tasks : CoordClose(t)
    \/ \E t \in DOMAIN tasks : DrainRecv(t)
    \/ \E t \in DOMAIN tasks : DrainExit(t)

SpecShared == Init /\ [][NextShared]_vars
FairSpecShared == SpecShared /\ WF_vars(Step) /\ WF_vars(CallerCloses)

\* One run of a pipeline in which a call of a transformation may never
\* return.
NextStuck ==
    \/ Next
    \/ \E t \in DOMAIN tasks : WorkerHang(t)

SpecStuck == Init /\ [][NextStuck]_vars

\* A call that has not hung returns; a hung one never does.
FairSpecStuck == SpecStuck /\ WF_vars(Step) /\ WF_vars(CallerCloses)

\* One run of a pipeline that may have stages of fan-out 0; the owner of the
\* input may keep it open for ever.
NextZero ==
    \/ \E f \in Fns : runs = <<>> /\ AddStage(f)
    \/ \E f \in Fns, n \in 0..MaxFan : runs = <<>> /\ AddStageWithFanOut(f, n)
    \/ \E c \in RunInputs : runs = <<>> /\ c = InputChan(1) /\ Run(c)
    \/ \E c \in RunInputs, x \in Items : Produce(c, x)
    \/ \E c \in RunInputs : CloseInput(c)
    \/ \E t \in DOMAIN tasks : WorkerRecv(t)
    \/ \E t \in DOMAIN tasks : WorkerCall(t)
    \/ \E t \in DOMAIN tasks : WorkerExit(t)
    \/ \E t \in DOMAIN tasks : RelayRecv(t)
    \/ \E t \in DOMAIN tasks : RelayExit(t)
    \/ \E t \in DOMAIN tasks : CoordClose(t)
    \/ \E t \in DOMAIN tasks : DrainRecv(t)
    \/ \E t \in DOMAIN tasks : DrainExit(t)

SpecZero == Init /\ [][NextZero]_vars
FairSpecZero == SpecZero /\ WF_vars(Step)

\* The same Pipeline value run up to MaxRuns times, each time on an input
\* channel of its own; stages may be added between the runs.
NextRuns ==
    \/ \E f \in Fns : Len(p) < MaxStagesRuns /\ AddStage(f)
    \/ \E f \in Fns, n \in 1..MaxFan : Len(p) < MaxStagesRuns /\ AddStageWithFanOut(f, n)
    \/ \E c \in RunInputs : c = InputChan(Len(runs) + 1) /\ Run(c)
    \/ \E c \in RunInputs, x \in Items : Len(sent[c]) < MaxLenRuns /\ Produce(c, x)
    \/ \E c \in RunInputs : CloseInput(c)
    \/ \E t \in DOMAIN tasks : WorkerRecv(t)
    \/ \E t \in DOMAIN tasks : WorkerCall(t)
    \/ \E t \in DOMAIN tasks : WorkerExit(t)
    \/ \E t \in DOMAIN tasks : RelayRecv(t)
    \/ \E t \in DOMAIN tasks : RelayExit(t)
    \/ \E t \in DOMAIN tasks : CoordClose(t)
    \/ \E t \in DOMAIN tasks : DrainRecv(t)
    \/ \E t \in DOMAIN tasks : DrainExit(t)

SpecRuns == Init /\ [][NextRuns]_vars

\* The goroutines are scheduled; the owner of an input channel may keep it
\* open for ever.
FairSpecRuns == SpecRuns /\ WF_vars(Step)

\* ------------------------------------------------------------ observations
ItemsOf(ds) == [i \in 1..Len(ds) |-> ds[i].item]
ToTask(t, ds) == LET To(e) == e.to = t IN SelectSeq(ds, To)
FromTask(t, ds) == LET From(e) == e.from = t IN SelectSeq(ds, From)

\* The items task t has received, and the items it has sent, in order.
DeliveredTo(t) == ItemsOf(ToTask(t, carried[tasks[t].in]))
SentBy(t) == ItemsOf(FromTask(t, carried[tasks[t].out]))

Closed(c) == chans[c].closed > 0
Started(r) == r \in 1..Len(runs)
Done(r) == Closed(runs[r].done)
Drained(r) == DeliveredTo(Drain(r))
RunTaskIds(r) == {t \in DOMAIN tasks : t[2] = r /\ tasks[t].kind # "reader"}
Holding(t) == tasks[t].pc \in {"call", "send"}
FanAtLeastOne(r) == \A s \in 1..Len(runs[r].p) : runs[r].p[s].fan >= 1

\* An item taken through the stage functions in order; a dropped item stays
\* dropped.
RECURSIVE Through(_, _)
Through(stages, x) ==
    IF stages = <<>> \/ x = Nil THEN x
    ELSE Through(Tail(stages), Call(Head(stages).fn, x))

NotNil(x) == x # Nil
Expected(stages, in) == SelectSeq([i \in 1..Len(in) |-> Through(stages, in[i])], NotNil)

IsPrefix(a, b) == Len(a) <= Len(b) /\ \A i \in 1..Len(a) : a[i] = b[i]

\* --------------------------------------------------------------------- C1
\* C1: doneChan of a run is closed only in states where the input channel is
\* closed and everything put on it was taken, every worker output and every
\* merged stage output of the run is closed, no goroutine of the run still
\* holds an item, and every delivery on the last stage's output went to the
\* drain, which so received all the last stage's relays were handed.
C1_DoneOnlyWhenDrained ==
    \A r \in 1..Len(runs) :
        (FanAtLeastOne(r) /\ Done(r)) =>
            LET in == runs[r].in
                k == Len(runs[r].p) IN
            /\ Closed(in) /\ chans[in].buf = <<>>
            /\ Len(carried[in]) = Len(sent[in])
            /\ \A t \in RunTaskIds(r) :
                  /\ ~Holding(t)
                  /\ Closed(tasks[t].out)
                  /\ tasks[t].kind = "relay" => SentBy(t) = DeliveredTo(t)
            /\ \A i \in 1..Len(carried[runs[r].out]) : carried[runs[r].out][i].to = Drain(r)

C1_Witness ==
    \E r \in 1..Len(runs) :
        /\ Done(r) /\ FanAtLeastOne(r)
        /\ Len(runs[r].p) = 2 /\ runs[r].p[2].fan = 2
        /\ Len(sent[runs[r].in]) = 2 /\ Len(Drained(r)) = 2

\* --------------------------------------------------------------------- C2
\* A step of a goroutine of run r, or its caller closing the run's input.
RunStep(r) ==
    \/ \E t \in RunTaskIds(r) :
          \/ WorkerRecv(t) \/ WorkerCall(t) \/ WorkerExit(t)
          \/ RelayRecv(t) \/ RelayExit(t) \/ CoordClose(t)
          \/ DrainRecv(t) \/ DrainExit(t)
    \/ CloseInput(runs[r].in)

NoDeadlock ==
    \A r \in 1..Len(runs) : (FanAtLeastOne(r) /\ ~Done(r)) => ENABLED RunStep(r)

\* C2: with the goroutines scheduled fairly and the caller closing the input,
\* every run (any number of stages, every fan-out >= 1) eventually closes its
\* doneChan, and in no state before that is the run unable to take a step.
C2_EventuallyDone ==
    /\ \A r \in 1..MaxRuns : (Started(r) /\ FanAtLeastOne(r)) ~> (Started(r) /\ Done(r))
    /\ []NoDeadlock

C2_Witness ==
    \E r \in 1..Len(runs) :
        /\ Done(r) /\ Len(runs[r].p) = 2
        /\ runs[r].p[1].fan = 2 /\ runs[r].p[2].fan = 2
        /\ Len(Drained(r)) = 2

\* --------------------------------------------------------------------- C3
DoneChanInv(r) ==
    LET d == runs[r].done IN
    /\ chans[d].closed \in {0, 1}
    /\ chans[d].buf = <<>> /\ carried[d] = <<>>
    /\ \A t \in DOMAIN tasks : tasks[t].out = d => (t = Drain(r) /\ tasks[t].pc # "send")
    /\ Closed(d) <=> tasks[Drain(r)].pc = "done"

DoneChanStep(r) ==
    LET d == runs[r].done IN
    /\ Closed(d) => chans'[d].closed = chans[d].closed
    /\ chans'[d].closed # chans[d].closed =>
          (tasks[Drain(r)].pc = "recv" /\ tasks'[Drain(r)].pc = "done")

\* C3: doneChan is made open, close() is called on it at most once and only by
\* the drain goroutine as it ends, once closed it stays closed, and nothing
\* is ever sent on it.
C3_OneShot ==
    /\ [](\A r \in 1..Len(runs) : DoneChanInv(r))
    /\ [][/\ \A r \in 1..Len(runs) : DoneChanStep(r)
          /\ \A r \in 1..Len(runs') : r > Len(runs) => chans'[runs'[r].done].closed = 0]_vars

C3_Witness ==
    \E r \in 1..Len(runs) : Done(r) /\ Len(Drained(r)) = 2 /\ Len(runs[r].p) >= 1

\* --------------------------------------------------------------------- C4
AllFanOne(r) == \A s \in 1..Len(runs[r].p) : runs[r].p[s].fan = 1

\* C4: with fan-out 1 at every stage the items arrive at the drain in input
\* order: what the drain has received is always a prefix of the input taken
\* through the stage functions in append order with the dropped items removed,
\* and is all of it once doneChan is closed.
C4_OrderPreserved ==
    \A r \in 1..Len(runs) :
        AllFanOne(r) =>
            /\ IsPrefix(Drained(r), Expected(runs[r].p, sent[runs[r].in]))
            /\ Done(r) => Drained(r) = Expected(runs[r].p, sent[runs[r].in])

\* A completed two-stage run of three items, the second of them dropped.
C4_Witness ==
    \E r \in 1..Len(runs) :
        /\ AllFanOne(r) /\ Done(r) /\ Len(runs[r].p) = 2
        /\ runs[r].p[1].fn # runs[r].p[2].fn
        /\ Len(sent[runs[r].in]) = 3 /\ ~IsInt(sent[runs[r].in][2])
        /\ Len(Drained(r)) = 2 /\ Drained(r)[1] # Drained(r)[2]

\* --------------------------------------------------------------------- C5
Count(x, seq) == Cardinality({i \in 1..Len(seq) : seq[i] = x})
SameItems(a, b) ==
    /\ Len(a) = Len(b)
    /\ \A i \in 1..Len(a) : Count(a[i], a) = Count(a[i], b)

\* C5: whatever the fan-out sizes, once doneChan is closed the drain has
\* received exactly the multiset of the input items taken through the stage
\* functions in append order, dropped items removed; the order may differ.
C5_SameMultiset ==
    \A r \in 1..Len(runs) :
        (FanAtLeastOne(r) /\ Done(r)) =>
            SameItems(Drained(r), Expected(runs[r].p, sent[runs[r].in]))

\* A completed run with a fanned-out stage whose arrival order is not the
\* input order.
C5_Witness ==
    \E r \in 1..Len(runs) :
        /\ Done(r) /\ \E s \in 1..Len(runs[r].p) : runs[r].p[s].fan > 1
        /\ Len(Drained(r)) = 2
        /\ Drained(r) # Expected(runs[r].p, sent[runs[r].in])

\* --------------------------------------------------------------------- C6
\* The standalone MergeChannels call: its output channel and input count.
MOut == MergeOut(0, 1)
MergeCalled == MOut \in DOMAIN chans
MergeK == Cardinality({t \in DOMAIN tasks : tasks[t].kind = "relay"})

RECURSIVE AllSent(_)
AllSent(k) == IF k = 0 THEN <<>> ELSE AllSent(k - 1) \o sent[InputChan(k)]

\* C6: what the merged channel has delivered from the relay of input i is
\* always a prefix of what was put on input i, all deliveries go to the reader
\* of the merged channel, and once the merged channel is closed the deliveries
\* from each input are exactly that input's items in their order, so that the
\* output is the multiset union of the inputs.
C6_MergeDelivers ==
    MergeCalled =>
        /\ \A e \in 1..Len(carried[MOut]) :
              /\ carried[MOut][e].to = Reader
              /\ carried[MOut][e].from \in {Relay(0, 1, i) : i \in 1..MergeK}
        /\ \A i \in 1..MergeK :
              /\ IsPrefix(ItemsOf(FromTask(Relay(0, 1, i), carried[MOut])), sent[InputChan(i)])
              /\ Closed(MOut) =>
                    ItemsOf(FromTask(Relay(0, 1, i), carried[MOut])) = sent[InputChan(i)]
        /\ Closed(MOut) => SameItems(ItemsOf(carried[MOut]), AllSent(MergeK))

\* Two inputs of two items each, merged in an order that is not input 1
\* followed by input 2.
C6_Witness ==
    /\ MergeCalled /\ MergeK = 2 /\ Closed(MOut)
    /\ Len(sent[InputChan(1)]) = 2 /\ Len(sent[InputChan(2)]) = 2
    /\ ItemsOf(carried[MOut]) # AllSent(2)
    /\ tasks[Reader].pc = "done"

\* --------------------------------------------------------------------- C7
InputsOf(outChan) == {tasks[t].in : t \in {u \in DOMAIN tasks : tasks[u].kind = "relay" /\ tasks[u].out = outChan}}

MergeCloseInv(t) ==
    LET out == tasks[t].out IN
    /\ chans[out].closed \in {0, 1}
    /\ Closed(out) <=> tasks[t].pc = "done"
    /\ Closed(out) =>
          /\ \A c \in InputsOf(out) : chans[c].closed > 0 /\ chans[c].buf = <<>>
          /\ \A u \in DOMAIN tasks :
                (tasks[u].kind = "relay" /\ tasks[u].out = out) =>
                    (tasks[u].pc = "done" /\ SentBy(u) = DeliveredTo(u))

MergeCloseStep(t) ==
    LET out == tasks[t].out IN
    chans'[out].closed # chans[out].closed =>
        (tasks[t].pc = "wait" /\ tasks'[t].pc = "done")

\* C7: close() is called on a merged channel at most once, by the goroutine
\* that waits on the WaitGroup, and only when every input channel is closed and
\* empty and every relay has sent on all it received and ended; with the
\* inputs closed by the caller and the output read, the merged channel is
\* eventually closed.
C7_MergeClose ==
    /\ [](\A t \in DOMAIN tasks : tasks[t].kind = "coord" => MergeCloseInv(t))
    /\ [][\A t \in DOMAIN tasks : tasks[t].kind = "coord" => MergeCloseStep(t)]_vars
    /\ MergeCalled ~> (MergeCalled /\ Closed(MOut))

\* The merged channel closed after input 2 ended before input 1.
C7_Witness ==
    /\ MergeCalled /\ MergeK = 2 /\ Closed(MOut)
    /\ Len(carried[MOut]) = 4
    /\ carried[MOut][4].from = Relay(0, 1, 1)

\* --------------------------------------------------------------------- C8
\* C8: MergeChannels of no channels returns a channel on which nothing is
\* ever sent and whose close waits for nothing: the WaitGroup counter is 0, so
\* the closing goroutine can run at once, and the channel is eventually closed.
C8_MergeOfNone ==
    /\ []((MergeCalled /\ MergeK = 0) =>
            /\ carried[MOut] = <<>>
            /\ \A t \in DOMAIN tasks : tasks[t].out = MOut => t = Coord(0, 1)
            /\ wg[MOut] = 0
            /\ tasks[Coord(0, 1)].pc = "wait" => ENABLED CoordClose(Coord(0, 1))
            /\ Closed(MOut) <=> tasks[Coord(0, 1)].pc = "done")
    /\ (MergeCalled /\ MergeK = 0) ~> (MergeCalled /\ Closed(MOut))

C8_Witness ==
    /\ MergeCalled /\ MergeK = 0 /\ Closed(MOut)
    /\ tasks[Reader].pc = "done" /\ DeliveredTo(Reader) = <<>>

\* --------------------------------------------------------------------- C9
Results(fn, in) == SelectSeq([i \in 1..Len(in) |-> Call(fn, in[i])], NotNil)
Front(seq) == SubSeq(seq, 1, Len(seq) - 1)

\* C9: a worker calls the ProcessFn once on each item it received, in order,
\* has at most the last received item in hand, and what it has sent (with the
\* item it is about to send) is exactly the non-nil results of those calls, in
\* order; nil is never sent.
C9_WorkerExactlyOnce ==
    \A t \in DOMAIN tasks :
        tasks[t].kind = "worker" =>
            LET rd == DeliveredTo(t)
                tk == tasks[t] IN
            /\ tk.called = IF tk.pc = "call" THEN Front(rd) ELSE rd
            /\ tk.pc = "call" => (rd # <<>> /\ tk.val = rd[Len(rd)])
            /\ SentBy(t) \o (IF tk.pc = "send" THEN <<tk.val>> ELSE <<>>)
                  = Results(tk.fn, tk.called)
            /\ tk.pc \in {"recv", "done"} => tk.val = Nil
            /\ \A i \in 1..Len(carried[tk.out]) :
                  carried[tk.out][i].from = t /\ carried[tk.out][i].item # Nil

\* A worker that received two items, dropped one and sent the other.
C9_Witness ==
    \E t \in DOMAIN tasks :
        /\ tasks[t].kind = "worker" /\ tasks[t].pc = "done"
        /\ Len(DeliveredTo(t)) = 2 /\ Len(SentBy(t)) = 1

\* -------------------------------------------------------------------- C10
WorkersOf(r) == {t \in DOMAIN tasks : tasks[t].kind = "worker" /\ t[2] = r}

WorkerCloseInv(t) ==
    LET tk == tasks[t] IN
    /\ chans[tk.out].closed \in {0, 1}
    /\ Closed(tk.out) <=> tk.pc = "done"
    /\ Closed(tk.out) =>
          /\ chans[tk.in].closed > 0 /\ chans[tk.in].buf = <<>>
          /\ tk.val = Nil
          /\ SentBy(t) = Results(tk.fn, DeliveredTo(t))

WorkerCloseStep(t) ==
    chans'[tasks[t].out].closed # chans[tasks[t].out].closed =>
        (tasks[t].pc = "recv" /\ tasks'[t].pc = "done")

\* C10: close() is called on a worker's output at most once, by the worker as
\* it ends, and only when its input is closed and empty and it has sent or
\* dropped everything it received; in a run whose input the caller closes,
\* every worker's output is eventually closed.
C10_WorkerClose ==
    /\ [](\A t \in DOMAIN tasks : tasks[t].kind = "worker" => WorkerCloseInv(t))
    /\ [][\A t \in DOMAIN tasks : tasks[t].kind = "worker" => WorkerCloseStep(t)]_vars
    /\ \A r \in 1..MaxRuns :
          (Started(r) /\ FanAtLeastOne(r)) ~>
              (Started(r) /\ \A t \in WorkersOf(r) : Closed(tasks[t].out))

\* A second-stage worker that closed its output after sending two items.
C10_Witness ==
    \E t \in DOMAIN tasks :
        /\ tasks[t].kind = "worker" /\ t[3] = 2
        /\ Closed(tasks[t].out) /\ Len(SentBy(t)) = 2

\* -------------------------------------------------------------------- C11
\* The channels the goroutines of run r read or write.
ChansOf(r) ==
    ({tasks[t].in : t \in RunTaskIds(r)} \cup {tasks[t].out : t \in RunTaskIds(r)})
        \ {NoChan}

RunOwnInv(r) ==
    /\ \A q \in 1..Len(runs) : q # r => ChansOf(q) \cap ChansOf(r) = {}
    /\ runs[r].done \in ChansOf(r)
    /\ \A c \in ChansOf(r) : \A i \in 1..Len(carried[c]) :
          /\ carried[c][i].to \in RunTaskIds(r)
          /\ carried[c][i].from \in RunTaskIds(r) \cup {Buffered}
    /\ \A x \in {Drained(r)[i] : i \in 1..Len(Drained(r))} :
          Count(x, Drained(r)) <= Count(x, Expected(runs[r].p, sent[runs[r].in]))
    /\ Done(r) => SameItems(Drained(r), Expected(runs[r].p, sent[runs[r].in]))

\* Run reads the stage list and leaves it, and the earlier runs, as they were.
RunKeepsStages ==
    /\ runs' # runs =>
          /\ p' = p
          /\ Len(runs') = Len(runs) + 1
          /\ runs'[Len(runs')].p = p
          /\ \A r \in 1..Len(runs) : runs'[r] = runs[r]
    /\ (tasks' # tasks \/ chans' # chans) => p' = p

\* C11: the runs of one Pipeline are independent: no channel is read or
\* written by goroutines of two runs, what a run's drain receives is the
\* run's own input mapped through the stages, Run leaves the stage list as it
\* was, and a run completes once its own input is closed even if the input
\* of another run is never closed.
C11_IndependentRuns ==
    /\ [](\A r \in 1..Len(runs) : RunOwnInv(r))
    /\ [][RunKeepsStages]_vars
    /\ \A r \in 1..MaxRuns :
          (Started(r) /\ Closed(runs[r].in)) ~> (Started(r) /\ Done(r))

\* Two runs with different items on their inputs; the first is done, the
\* second's input is still open with its item not yet through.
C11_Witness ==
    /\ Len(runs) = 2
    /\ Done(1) /\ Len(Drained(1)) = 1
    /\ ~Closed(runs[2].in) /\ ~Done(2)
    /\ Len(sent[runs[2].in]) = 1 /\ sent[runs[2].in] # sent[runs[1].in]

\* -------------------------------------------------------------------- C12
StageWorkers(r, s) == {t \in WorkersOf(r) : t[3] = s}

\* The transformation of stage s of run r returned nil for every item the
\* stage has taken so far.
FiltersAll(r, s) ==
    \A t \in StageWorkers(r, s) :
        \A i \in 1..Len(DeliveredTo(t)) : Call(tasks[t].fn, DeliveredTo(t)[i]) = Nil

FilterInv(r, s) ==
    FiltersAll(r, s) =>
        /\ \A t \in StageWorkers(r, s) : carried[tasks[t].out] = <<>>
        /\ carried[MergeOut(r, s)] = <<>>
        /\ \A t \in WorkersOf(r) : t[3] > s => tasks[t].called = <<>>
        /\ Drained(r) = <<>>
        /\ Done(r) =>
              /\ Exhausted(StageIn(runs[r].in, r, s))
              /\ Offers(StageIn(runs[r].in, r, s)) = {}
              /\ s = 1 => Len(carried[runs[r].in]) = Len(sent[runs[r].in])
              /\ \A t \in StageWorkers(r, s) : tasks[t].called = DeliveredTo(t)

\* The caller closed an input that holds only items the first stage drops.
OnlyDropped(r) ==
    /\ Started(r) /\ FanAtLeastOne(r) /\ Len(runs[r].p) >= 1
    /\ Closed(runs[r].in)
    /\ sent[runs[r].in] # <<>>
    /\ \A i \in 1..Len(sent[runs[r].in]) :
          Call(runs[r].p[1].fn, sent[runs[r].in][i]) = Nil

\* C12: while a stage's transformation has returned nil for every item, the
\* stage's outputs carry nothing, no later stage's transformation is called
\* and the drain receives nothing; the stage still takes every input item,
\* and once the input is closed doneChan is eventually closed.
C12_Filtering ==
    /\ [](\A r \in 1..Len(runs) : \A s \in 1..Len(runs[r].p) : FilterInv(r, s))
    /\ \A r \in 1..MaxRuns :
          OnlyDropped(r) ~>
              (Started(r) /\ Done(r) /\ Drained(r) = <<>>
                  /\ Len(carried[runs[r].in]) = Len(sent[runs[r].in]))

\* A completed two-stage run whose first stage took three items and dropped
\* them all.
C12_Witness ==
    \E r \in 1..Len(runs) :
        /\ Done(r) /\ Len(runs[r].p) = 2
        /\ Len(sent[runs[r].in]) = 3
        /\ FiltersAll(r, 1)
        /\ Len(carried[runs[r].in]) = 3
        /\ Drained(r) = <<>>

\* -------------------------------------------------------------------- C13
\* The stages of run r that were added with fanSize 0.
ZeroStages(r) == {s \in 1..Len(runs[r].p) : runs[r].p[s].fan = 0}

\* Something is waiting on channel c to be received: an item in its buffer
\* or a goroutine blocked in a send.
Pending(c) == Offers(c) # {}

ZeroFanInv(r, s) ==
    LET inChan == StageIn(runs[r].in, r, s) IN
    /\ StageWorkers(r, s) = {}
    /\ wg[MergeOut(r, s)] = 0
    /\ ~Closed(MergeOut(r, s)) => ENABLED CoordClose(Coord(r, s))
    /\ carried[MergeOut(r, s)] = <<>>
    /\ carried[inChan] = <<>>
    /\ s = 1 => chans[inChan].buf = sent[inChan]
    /\ \A t \in WorkersOf(r) : t[3] > s => tasks[t].called = <<>>
    /\ Drained(r) = <<>>

\* A goroutine blocked in a send to the input of a stage without workers
\* stays blocked.
ZeroFanStep(r, s) ==
    \A t \in DOMAIN tasks :
        (tasks[t].pc = "send" /\ tasks[t].out = StageIn(runs[r].in, r, s)) =>
            tasks'[t] = tasks[t]

StageRelays(r, s) == {t \in RunTaskIds(r) : tasks[t].kind = "relay" /\ t[3] = s}

\* The number of deliveries on the outputs of workers 1..i of a stage.
RECURSIVE WorkerOutTotal(_, _, _)
WorkerOutTotal(r, s, i) ==
    IF i = 0 THEN 0
    ELSE WorkerOutTotal(r, s, i - 1) + Len(carried[WorkerOut(r, s, i)])

FanOutInv(r, s) ==
    LET F == runs[r].p[s].fan
        inChan == StageIn(runs[r].in, r, s)
    IN  /\ StageWorkers(r, s) = {Worker(r, s, i) : i \in 1..F}
        /\ Cardinality(StageWorkers(r, s)) = F
        /\ {t \in DOMAIN tasks : tasks[t].in = inChan} = StageWorkers(r, s)
        /\ \A i \in 1..Len(carried[inChan]) : carried[inChan][i].to \in StageWorkers(r, s)
        /\ s = 1 => ItemsOf(carried[inChan]) \o chans[inChan].buf = sent[inChan]
        /\ \A q \in {t \in DOMAIN tasks : tasks[t].kind = "relay" /\ tasks[t].out = inChan} :
              DeliveredTo(q) =
                  SentBy(q) \o (IF tasks[q].pc = "send" THEN <<tasks[q].val>> ELSE <<>>)
        /\ \A t \in StageWorkers(r, s) :
              Len(tasks[t].called) + (IF tasks[t].pc = "call" THEN 1 ELSE 0)
                  = Len(DeliveredTo(t))
        /\ StageRelays(r, s) = {Relay(r, s, i) : i \in 1..F}
        /\ \A i \in 1..F :
              /\ tasks[Worker(r, s, i)].out = WorkerOut(r, s, i)
              /\ tasks[Relay(r, s, i)].in = WorkerOut(r, s, i)
              /\ tasks[Relay(r, s, i)].out = MergeOut(r, s)
        /\ \A i \in 1..Len(carried[MergeOut(r, s)]) :
              carried[MergeOut(r, s)][i].from \in StageRelays(r, s)
        /\ WorkerOutTotal(r, s, F) =
              Len(carried[MergeOut(r, s)])
                  + Cardinality({t \in StageRelays(r, s) : tasks[t].pc = "send"})
        /\ Closed(MergeOut(r, s)) =>
              /\ \A i \in 1..F : Closed(WorkerOut(r, s, i))
              /\ Exhausted(inChan) /\ ~Pending(inChan)
              /\ WorkerOutTotal(r, s, F) = Len(carried[MergeOut(r, s)])

\* C14: a stage of fan-out F has exactly F workers, all ranging over the
\* stage's one input; every item put on that input is received once, by one
\* of them, and none is left when the stage has ended; the stage's output is
\* the merge of the F worker outputs and is closed only after all F are.
C14_FanOutDistribution ==
    \A r \in 1..Len(runs) : \A s \in 1..Len(runs[r].p) : FanOutInv(r, s)

\* A second stage of fan-out 2 that has ended, each of its two workers
\* having received one of the two items.
C14_Witness ==
    \E r \in 1..Len(runs) :
        /\ Len(runs[r].p) = 2 /\ runs[r].p[2].fan = 2
        /\ Closed(MergeOut(r, 2))
        /\ \A t \in StageWorkers(r, 2) : Len(DeliveredTo(t)) = 1
        /\ Len(carried[MergeOut(r, 2)]) = 2

\* -------------------------------------------------------------------- C15
\* The channels made by Run, by the stage functions and by MergeChannels.
MadeChans == DOMAIN chans \ InputChans

\* The kind of goroutine whose code closes channel c.
ProducerKind(c) ==
    IF c[1] = "w" THEN "worker" ELSE IF c[1] = "m" THEN "coord" ELSE "drain"

CloseDisciplineInv ==
    /\ \A c \in MadeChans : chans[c].closed \in {0, 1}
    /\ \A t \in DOMAIN tasks : tasks[t].pc = "send" => ~Closed(tasks[t].out)
    /\ \A c \in MadeChans :
          Cardinality({t \in DOMAIN tasks :
                          tasks[t].out = c /\ tasks[t].kind = ProducerKind(c)}) = 1

CloseDisciplineStep ==
    \A c \in MadeChans :
        chans'[c].closed # chans[c].closed =>
            \E t \in DOMAIN tasks :
                /\ tasks[t].out = c /\ tasks[t].kind = ProducerKind(c)
                /\ tasks[t].pc # "done" /\ tasks'[t].pc = "done"
                /\ \A u \in DOMAIN tasks \ {t} : tasks'[u] = tasks[u]

\* C15: no channel the package makes is closed twice, no goroutine is in a
\* send on a closed channel, and each is closed by the one goroutine on its
\* producer side as that goroutine ends: a worker its output, the
\* coordinator the merged output, the drain doneChan.
C15_CloseDiscipline ==
    /\ []CloseDisciplineInv
    /\ [][CloseDisciplineStep]_vars

\* A completed run with a fanned-out stage: seven channels made, each closed
\* once.
C15_Witness ==
    /\ Cardinality(MadeChans) >= 7
    /\ \A c \in MadeChans : chans[c].closed = 1
    /\ \E r \in 1..Len(runs) : Len(Drained(r)) = 2

\* A standalone merge of two channels whose merged channel was closed once,
\* after both relays sent.
C15_WitnessMerge ==
    /\ MergeCalled /\ MergeK = 2
    /\ chans[MOut].closed = 1 /\ Len(carried[MOut]) >= 2

\* -------------------------------------------------------------------- C16
\* No goroutine of run r is left: each is past its loop (a coordinator past
\* wg.Wait()), so none is blocked in a send or a receive, every WaitGroup
\* counter is 0 and everything but the caller's input is closed and empty.
NoLeak(r) ==
    /\ \A t \in RunTaskIds(r) : tasks[t].pc = "done" /\ tasks[t].val = Nil
    /\ \A s \in 1..Len(runs[r].p) :
          /\ wg[MergeOut(r, s)] = 0
          /\ Cardinality(StageWorkers(r, s)) = runs[r].p[s].fan
          /\ Cardinality(StageRelays(r, s)) = runs[r].p[s].fan
          /\ Coord(r, s) \in RunTaskIds(r)
    /\ Drain(r) \in RunTaskIds(r)
    /\ \A c \in ChansOf(r) : ~Pending(c)
    /\ \A c \in ChansOf(r) \ {runs[r].in} : chans[c].closed = 1
    /\ ~ENABLED RunStep(r)

\* C16: when doneChan is closed, every worker, relay and the drain of the
\* run has left its loop, every coordinator is past its wait, every channel
\* the run made is closed and no goroutine is blocked on a send or receive.
C16_NoLeak ==
    \A r \in 1..Len(runs) : (FanAtLeastOne(r) /\ Done(r)) => NoLeak(r)

\* A completed run of two stages, the first fanned out, that carried two
\* items to the drain: nine goroutines, all ended.
C16_Witness ==
    \E r \in 1..Len(runs) :
        /\ Done(r) /\ Len(runs[r].p) = 2 /\ runs[r].p[1].fan = 2
        /\ Len(Drained(r)) = 2
        /\ Cardinality(RunTaskIds(r)) = 9
        /\ \A t \in RunTaskIds(r) : tasks[t].pc = "done"

\* -------------------------------------------------------------------- C17
StuckIn(r) == {t \in WorkersOf(r) : Stuck(t)}

\* What the drain would have received for the item worker t holds.
Rest(r, t) == Through(SubSeq(runs[r].p, t[3], Len(runs[r].p)), tasks[t].val)

\* The drain has received the results of all the input but the items that
\* workers are stuck with.
AllButStuckDrained(r) ==
    LET want == Expected(runs[r].p, sent[runs[r].in])
        vals == {want[i] : i \in 1..Len(want)} \cup {Drained(r)[i] : i \in 1..Len(Drained(r))}
    IN  \A x \in vals :
            Count(x, Drained(r)) + Cardinality({t \in StuckIn(r) : Rest(r, t) = x})
                = Count(x, want)

\* Exactly one call of run r hangs, in a stage of fan-out above 1.
OneStuckOfMany(r) ==
    /\ Started(r) /\ FanAtLeastOne(r)
    /\ Cardinality(StuckIn(r)) = 1
    /\ \A t \in StuckIn(r) : runs[r].p[t[3]].fan > 1

Isolated(r) == Closed(runs[r].in) /\ AllButStuckDrained(r)

IsolationInv(r) ==
    OneStuckOfMany(r) =>
        /\ ~Isolated(r) => ENABLED RunStep(r)
        /\ \A t \in StuckIn(r) : \A u \in StageWorkers(r, t[3]) \ {t} :
              (tasks[u].pc = "recv" /\ Pending(tasks[u].in)) => ENABLED WorkerRecv(u)

\* C17: when one worker of a stage of fan-out above 1 is stuck in a call,
\* the stage's other workers still receive whatever is put on its input and
\* the run keeps moving until, the input closed, the drain has received the
\* results of every input item but the one the stuck worker holds.
C17_StuckWorkerIsolation ==
    /\ [](\A r \in 1..Len(runs) : IsolationInv(r))
    /\ \A r \in 1..MaxRuns :
          OneStuckOfMany(r) ~> (OneStuckOfMany(r) /\ Isolated(r))

\* One of the two workers of the first stage is stuck with an item; the
\* other item went through both stages to the drain.
C17_Witness ==
    \E r \in 1..Len(runs) :
        /\ OneStuckOfMany(r) /\ Isolated(r)
        /\ Len(runs[r].p) = 2 /\ runs[r].p[1].fan = 2
        /\ Len(sent[runs[r].in]) = 2
        /\ Len(Drained(r)) = 1
        /\ \E t \in StuckIn(r) : t[3] = 1 /\ Rest(r, t) # Nil

\* -------------------------------------------------------------------- C18
\* The channels of run r from the output of worker t on: the worker's
\* output and the merged outputs of its stage and of the later stages.
Downstream(r, t) ==
    {tasks[t].out} \cup {MergeOut(r, s) : s \in t[3]..Len(runs[r].p)}

StallInv(r) ==
    \A t \in StuckIn(r) :
        /\ ~Done(r)
        /\ tasks[t].val # Nil
        /\ \A c \in Downstream(r, t) \cup {runs[r].done} : ~Closed(c)
        /\ tasks[Coord(r, t[3])].pc = "wait" /\ wg[MergeOut(r, t[3])] >= 1
        /\ tasks[Drain(r)].pc = "recv"
        /\ runs[r].p[t[3]].fan = 1 =>
              /\ \A c \in Downstream(r, t) : Len(carried[c]) <= Len(SentBy(t))
              /\ Len(Drained(r)) <= Len(SentBy(t))
              /\ Len(SentBy(t)) < Len(carried[tasks[t].in])

\* A stuck worker stays as it is; when it is its stage's only worker, nothing
\* more is received from the stage's input or sent on its output.
StallStep(r) ==
    \A t \in StuckIn(r) :
        /\ tasks'[t] = tasks[t]
        /\ runs[r].p[t[3]].fan = 1 =>
              /\ carried'[tasks[t].in] = carried[tasks[t].in]
              /\ carried'[tasks[t].out] = carried[tasks[t].out]

\* C18: while a call of a transformation does not return, doneChan is not
\* closed, whatever the stage's fan-out and whether or not the input is
\* closed, and nothing panics (no second close, no send on a closed
\* channel); when the stage has fan-out 1, nothing more is taken from its
\* input and no channel downstream of it carries more than the worker had
\* sent before.
C18_PermanentStall ==
    /\ [](\A r \in 1..Len(runs) : StallInv(r))
    /\ []CloseDisciplineInv
    /\ [][\A r \in 1..Len(runs) : StallStep(r)]_vars

\* The only worker of the first stage is stuck with the second of three
\* items; the input is closed with the third item still in it, the first
\* item reached the drain, and no goroutine can take a step.
C18_Witness ==
    \E r \in 1..Len(runs) : \E t \in StuckIn(r) :
        /\ t[3] = 1 /\ runs[r].p[1].fan = 1
        /\ Closed(runs[r].in) /\ Len(chans[runs[r].in].buf) = 1
        /\ Len(DeliveredTo(t)) = 2 /\ Len(Drained(r)) = 1
        /\ ~ENABLED Step
        /\ ~Done(r)

\* -------------------------------------------------------------------- C19
\* The calls of worker t that returned nil.
DropsOf(t) == Len(tasks[t].called) - Len(Results(tasks[t].fn, tasks[t].called))

RECURSIVE DropsIn(_)
DropsIn(S) ==
    IF S = {} THEN 0
    ELSE LET t == CHOOSE u \in S : TRUE IN DropsOf(t) + DropsIn(S \ {t})

RECURSIVE FanTotal(_)
FanTotal(stages) ==
    IF stages = <<>> THEN 0 ELSE Head(stages).fan + FanTotal(Tail(stages))

\* The items taken from the input of stage s and neither handed to the next
\* stage nor dropped.
InFlight(r, s) ==
    Len(carried[StageIn(runs[r].in, r, s)]) - Len(carried[MergeOut(r, s)])
        - DropsIn(StageWorkers(r, s))

\* The items taken from the input of run r and neither received by the
\* drain nor dropped by a stage.
InPipeline(r) ==
    Len(carried[runs[r].in]) - Len(Drained(r)) - DropsIn(WorkersOf(r))

BoundedInv(r) ==
    /\ \A c \in ChansOf(r) \ {runs[r].in} : chans[c].cap = 0 /\ chans[c].buf = <<>>
    /\ \A t \in WorkersOf(r) :
          Len(DeliveredTo(t)) - Len(SentBy(t)) - DropsOf(t)
              = (IF tasks[t].val # Nil THEN 1 ELSE 0)
    /\ \A s \in 1..Len(runs[r].p) : \A t \in StageRelays(r, s) :
          Len(DeliveredTo(t)) - Len(SentBy(t)) = (IF tasks[t].val # Nil THEN 1 ELSE 0)
    /\ \A s \in 1..Len(runs[r].p) :
          /\ InFlight(r, s) =
                Cardinality({t \in StageWorkers(r, s) \cup StageRelays(r, s) :
                                tasks[t].val # Nil})
          /\ InFlight(r, s) <= 2 * runs[r].p[s].fan
    /\ InPipeline(r) >= 0
    /\ InPipeline(r) <= 2 * FanTotal(runs[r].p)

\* C19 (as the code has it): each worker and each relay holds at most one
\* item, so at most 2*F items are in flight in a stage of fan-out F, and the
\* items taken from the input are at most the sum of 2*F over the stages
\* more than those the drain has received and those the stages have dropped.
C19_BoundedInFlight ==
    \A r \in 1..Len(runs) : BoundedInv(r)

\* A one-stage run whose drain has received nothing: the worker and the
\* relay each hold an item (2*F in flight) and a third item was dropped.
C19_Witness ==
    \E r \in 1..Len(runs) :
        /\ Len(runs[r].p) = 1 /\ runs[r].p[1].fan = 1
        /\ Drained(r) = <<>>
        /\ InFlight(r, 1) = 2
        /\ DropsIn(WorkersOf(r)) = 1
        /\ Len(carried[runs[r].in]) = 3

\* C19 (as stated): the items taken from the input are at most the sum of
\* 2*F over the stages more than those the drain has received.
C19_RemovedBounded ==
    \A r \in 1..Len(runs) :
        Len(carried[runs[r].in]) - Len(Drained(r)) <= 2 * FanTotal(runs[r].p)

\* -------------------------------------------------------------------- C20
\* Two runs were started on the same input channel.
SharedInput == Len(runs) = 2 /\ runs[1].in = runs[2].in

\* The items of the shared input that goroutines of run r received.
ReceivedBy(r) ==
    LET ToRun(e) == e.to \in RunTaskIds(r)
    IN  ItemsOf(SelectSeq(carried[runs[r].in], ToRun))

SharedInv ==
    SharedInput =>
        LET c == runs[1].in IN
        /\ RunTaskIds(1) \cap RunTaskIds(2) = {}
        /\ ItemsOf(carried[c]) \o chans[c].buf = sent[c]
        /\ \A i \in 1..Len(carried[c]) :
              /\ carried[c][i].from = Buffered
              /\ carried[c][i].to \in RunTaskIds(1) \cup RunTaskIds(2)
              /\ tasks[carried[c][i].to].in = c
        /\ Len(ReceivedBy(1)) + Len(ReceivedBy(2)) = Len(carried[c])
        /\ \A r \in 1..2 :
              /\ Len(Drained(r)) <= Len(ReceivedBy(r))
              /\ Done(r) =>
                    /\ Exhausted(c)
                    /\ SameItems(Drained(r), Expected(runs[r].p, ReceivedBy(r)))
        /\ (Done(1) /\ Done(2)) => Len(carried[c]) = Len(sent[c])

\* C20: with two runs started on one input channel every item put on it is
\* received once, by a goroutine of one of the two runs, each run's drain
\* receives the results of the items its own run received, and once the
\* input is closed both runs' doneChans are eventually closed.
C20_SharedInput ==
    /\ []SharedInv
    /\ SharedInput ~> (SharedInput /\ Done(1) /\ Done(2))

\* Both runs are done and each received one of the two items of the input.
C20_Witness ==
    /\ SharedInput /\ Done(1) /\ Done(2)
    /\ Len(runs[1].p) = 1
    /\ Len(ReceivedBy(1)) = 1 /\ Len(ReceivedBy(2)) = 1
    /\ Len(Drained(1)) = 1 /\ Len(Drained(2)) = 1

====
